---- MODULE Spec2Model ----
(***************************************************************************)
(* Model of the git-module metadata layer: the two-phase code search       *)
(* (getNumberOfCodeMatches, getRangeOfMatches, ShearchMatchesThisRepo),    *)
(* the streaming file-status classifier (GetCommitFileStatus), the         *)
(* submodule registry (Commit.GetSubModules, Commit.GetSubModule) and the  *)
(* collaborator statistics (commitsCountPerCollab, numStatCommitsPerUser). *)
(*                                                                         *)
(* Text is modelled as a sequence of tokens.  A token is one character,   *)
(* or a run of characters that no operation of the code ever cuts         *)
(* ("[submodule", "path", "url", a commit id, a file name).                *)
(***************************************************************************)
EXTENDS Integers, Sequences, FiniteSets, TLC

VARIABLES
    \* ---- code search (ShearchMatchesThisRepo) ----
    repo,        \* the files of the repository, as the two greps see them
    opts,        \* RepoSearchOptions: [Page, PageSize]
    countRun,    \* what RunPipesInDir does for the count phase
    fetchRun,    \* what RunPipesInDir does for the fetch phase
    spc,         \* position of ShearchMatchesThisRepo
    matches,     \* the MatchesResults under construction
    fetchTried,  \* TRUE once GetRangeOfMatches has been called
    rangeRet,    \* what GetRangeOfMatches returned to the composed search
    sret,        \* what ShearchMatchesThisRepo returned
    \* ---- file status (GetCommitFileStatus) ----
    stream,      \* the lines the git process writes before it exits
    procFails,   \* TRUE when the process exits with an error
    written,     \* number of lines of stream written to the pipe so far
    pipe,        \* the line in flight in the io.Pipe (<<>> when none)
    wClosed,     \* w.Close() was called
    consumed,    \* lines scanner.Scan() has handed to the goroutine
    fileStatus,  \* the CommitFileStatus shared by goroutine and caller
    gpc,         \* position of the scanning goroutine
    cpc,         \* position of the calling flow
    doneRecv,    \* number of values received from the done channel
    fret,        \* what GetCommitFileStatus returned
    \* ---- submodules (Commit.GetSubModules / GetSubModule) ----
    blob,        \* the lines of the .gitmodules blob
    hasBlob,     \* FALSE when the commit has no .gitmodules entry
    submoduleCache, \* c.submoduleCache: Nil or the id of an objectCache
    heap,        \* the objectCaches allocated so far: id -> path -> SubModule
    call,        \* per caller running GetSubModules step by step: its frame
    blobReads,   \* number of times the blob was read and parsed
    lastRet,     \* the result of the most recently completed call
    \* ---- collaborator statistics ----
    rows,        \* the rows the external tool printed into stdout
    stdout,      \* the output of the external invocation
    runErr,      \* the error of the invocation, Nil when it succeeded
    user,        \* the user argument
    statpc,      \* "call" before the function ran, "done" after
    statret      \* what the function returned

searchVars == <<repo, opts, countRun, fetchRun, spc, matches, fetchTried,
                rangeRet, sret>>
statusVars == <<stream, procFails, written, pipe, wClosed, consumed,
                fileStatus, gpc, cpc, doneRecv, fret>>
subVars    == <<blob, hasBlob, submoduleCache, heap, call, blobReads,
                lastRet>>
statVars   == <<rows, stdout, runErr, user, statpc, statret>>
vars       == <<searchVars, statusVars, subVars, statVars>>

Nil == "nil"

(***************************************************************************)
(* Bounds of the model.                                                    *)
(***************************************************************************)
MaxFiles    == 3
MaxPage     == 3
MaxPageSize == 2
MaxStream   == 3
MaxBlobLines == 4
MaxRows     == 2

(***************************************************************************)
(* Text helpers (package strings).                                         *)
(***************************************************************************)
NL  == "\n"
TAB == "\t"
SP  == " "

Max(a, b) == IF a >= b THEN a ELSE b
Min(a, b) == IF a <= b THEN a ELSE b

\* TRUE when sep occurs in s at position i
MatchAt(s, sep, i) ==
    /\ i + Len(sep) - 1 <= Len(s)
    /\ \A j \in 1..Len(sep) : s[i + j - 1] = sep[j]

\* the first position of sep in s, 0 when there is none
IndexOf(s, sep) ==
    IF \E i \in 1..Len(s) : MatchAt(s, sep, i)
    THEN CHOOSE i \in 1..Len(s) :
            /\ MatchAt(s, sep, i)
            /\ \A k \in 1..(i - 1) : ~MatchAt(s, sep, k)
    ELSE 0

\* strings.Split(s, sep), sep non-empty: always at least one element
RECURSIVE Split(_, _)
Split(s, sep) ==
    LET i == IndexOf(s, sep)
    IN  IF i = 0 THEN <<s>>
        ELSE <<SubSeq(s, 1, i - 1)>> \o Split(SubSeq(s, i + Len(sep), Len(s)), sep)

\* strings.SplitN(s, sep, 2)
SplitN2(s, sep) ==
    LET i == IndexOf(s, sep)
    IN  IF i = 0 THEN <<s>>
        ELSE <<SubSeq(s, 1, i - 1), SubSeq(s, i + Len(sep), Len(s))>>

\* strings.Trim(s, " ")
RECURSIVE TrimLeft(_, _)
TrimLeft(s, cut) ==
    IF s # <<>> /\ Head(s) \in cut THEN TrimLeft(Tail(s), cut) ELSE s

RECURSIVE TrimRight(_, _)
TrimRight(s, cut) ==
    IF s # <<>> /\ s[Len(s)] \in cut
    THEN TrimRight(SubSeq(s, 1, Len(s) - 1), cut) ELSE s

Trim(s, cut) == TrimRight(TrimLeft(s, cut), cut)

\* strings.TrimSpace(s)
WhiteSpace == {SP, TAB, NL, "\r"}
TrimSpace(s) == Trim(s, WhiteSpace)

(***************************************************************************)
(* Code search.                                                            *)
(*                                                                         *)
(* A file of the history is "exact" when it holds the keyword as typed,    *)
(* "caseonly" when it holds the keyword only in another letter case, and   *)
(* "none" when it does not hold it.  repo[i] is the kind of file i.        *)
(***************************************************************************)
FileKinds == {"exact", "caseonly", "none"}
Repos     == UNION {[1..n -> FileKinds] : n \in 0..MaxFiles}

PathTok(i) == <<"p", ToString(i)>>

\* the files `git grep -F -c -I` reports: case-sensitive
CountHits(r) == {i \in 1..Len(r) : r[i] = "exact"}
\* the files `git grep -F -I -i ...` reports: case-insensitive
FetchHits(r) == {i \in 1..Len(r) : r[i] \in {"exact", "caseonly"}}

\* one line "commit:path:count" per reported file
RECURSIVE CountLines(_, _)
CountLines(r, i) ==
    IF i > Len(r) THEN <<>>
    ELSE (IF i \in CountHits(r)
          THEN <<"c", ":">> \o PathTok(i) \o <<":", "1", NL>>
          ELSE <<>>) \o CountLines(r, i + 1)

GrepCount(r) == CountLines(r, 1)

\* --heading --break: a heading line "commit:path", the numbered lines of
\* the hit, and an empty line between the blocks of two files
FetchBlock(i) == <<"c", ":">> \o PathTok(i) \o <<NL, "1", ":", "x", NL>>

RECURSIVE FetchBlocks(_, _, _)
FetchBlocks(r, i, first) ==
    IF i > Len(r) THEN <<>>
    ELSE IF i \in FetchHits(r)
         THEN (IF first THEN <<>> ELSE <<NL>>) \o FetchBlock(i)
              \o FetchBlocks(r, i + 1, FALSE)
         ELSE FetchBlocks(r, i + 1, first)

GrepFetch(r) == FetchBlocks(r, 1, TRUE)

\* what cmd.RunPipesInDir hands back: (stdout, err); a failed invocation
\* may have produced its output, or none
RunResults(out, e) ==
    {[stdout |-> out, err |-> Nil], [stdout |-> out, err |-> e],
     [stdout |-> <<>>, err |-> e]}

getNumberOfCodeMatches(run) ==
    IF Len(run.stdout) <= 0
    THEN [n |-> 0, err |-> Nil]
    ELSE [n |-> Len(Split(run.stdout, <<NL>>)) - 1, err |-> run.err]

\* the loop over the blocks of the page: bufio ReadString('\n') of the
\* header, strings.Split(header, ":"), info[0] and info[1]
RECURSIVE ParseBlocks(_, _)
ParseBlocks(results, acc) ==
    IF results = <<>> THEN [kind |-> "ret", matches |-> acc, err |-> Nil]
    ELSE LET result == Head(results)
             nl     == IndexOf(result, <<NL>>)
             header == SubSeq(result, 1, nl)
             info   == Split(header, <<":">>)
         IN  IF nl = 0
             THEN [kind |-> "ret", matches |-> <<>>, err |-> "EOF"]
             ELSE IF Len(info) < 2
             THEN [kind |-> "panic", matches |-> <<>>, err |-> Nil]
             ELSE ParseBlocks(Tail(results),
                      Append(acc, [CommitID |-> info[1],
                                   Path     |-> Trim(info[2], {SP}),
                                   Content  |-> result]))

getRangeOfMatches(run, o) ==
    IF Len(run.stdout) <= 0
    THEN [kind |-> "ret", matches |-> <<>>, err |-> Nil]
    ELSE LET results == Split(run.stdout, <<NL, NL>>)
             limit   == IF o.Page * o.PageSize < Len(results)
                        THEN o.Page * o.PageSize
                        ELSE Len(results)
             low     == (o.Page - 1) * o.PageSize
         IN  IF low > limit
             THEN [kind |-> "panic", matches |-> <<>>, err |-> Nil]
             ELSE LET r == ParseBlocks(SubSeq(results, low + 1, limit), <<>>)
                  IN  IF r.kind = "ret" /\ r.err = Nil
                      THEN [r EXCEPT !.err = run.err]
                      ELSE r

SearchIdle ==
    /\ repo = <<>>
    /\ opts = [Page |-> 1, PageSize |-> 1]
    /\ countRun = [stdout |-> <<>>, err |-> Nil]
    /\ fetchRun = [stdout |-> <<>>, err |-> Nil]
    /\ spc = "idle"
    /\ matches = [NumberMatches |-> 0, Results |-> <<>>]
    /\ fetchTried = FALSE
    /\ rangeRet = [kind |-> "none"]
    /\ sret = [kind |-> "none"]

SearchInit ==
    /\ repo \in Repos
    /\ opts \in [Page : 1..MaxPage, PageSize : 1..MaxPageSize]
    /\ countRun \in RunResults(GrepCount(repo), "countErr")
    /\ fetchRun \in RunResults(GrepFetch(repo), "fetchErr")
    /\ spc = "count"
    /\ matches = [NumberMatches |-> 0, Results |-> <<>>]
    /\ fetchTried = FALSE
    /\ rangeRet = [kind |-> "none"]
    /\ sret = [kind |-> "none"]

\* ShearchMatchesThisRepo up to the return after the count phase
SearchCount ==
    /\ spc = "count"
    /\ LET r == getNumberOfCodeMatches(countRun)
       IN  /\ matches' = [matches EXCEPT !.NumberMatches = r.n]
           /\ IF r.err # Nil
              THEN spc' = "done" /\ sret' = [kind |-> "ret", m |-> <<>>, err |-> r.err]
              ELSE spc' = "fetch" /\ sret' = sret
    /\ UNCHANGED <<repo, opts, countRun, fetchRun, fetchTried, rangeRet>>
    /\ UNCHANGED <<statusVars, subVars, statVars>>

\* ShearchMatchesThisRepo from the fetch phase to its return
SearchFetch ==
    /\ spc = "fetch"
    /\ fetchTried' = TRUE
    /\ LET r == getRangeOfMatches(fetchRun, opts)
       IN  /\ rangeRet' = r
           /\ IF r.kind = "panic"
              THEN spc' = "panic" /\ sret' = sret /\ matches' = matches
              ELSE /\ spc' = "done"
                   /\ matches' = [matches EXCEPT !.Results = r.matches]
                   /\ sret' = IF r.err # Nil
                              THEN [kind |-> "ret", m |-> <<>>, err |-> r.err]
                              ELSE [kind |-> "ret", m |-> <<matches'>>,
                                    err |-> Nil]
    /\ UNCHANGED <<repo, opts, countRun, fetchRun>>
    /\ UNCHANGED <<statusVars, subVars, statVars>>

(***************************************************************************)
(* File status: GetCommitFileStatus.                                       *)
(*                                                                         *)
(* The git process writes the lines of `stream` to the pipe writer w and   *)
(* then exits, with an error when procFails.  An io.Pipe write completes   *)
(* only when the reader has taken the data, so at most one line is in      *)
(* flight.  The goroutine scans the pipe reader and sends on `done`, an    *)
(* unbuffered channel, when the scanner reports the end of the stream.     *)
(***************************************************************************)

\* strings.Fields(s): the maximal runs of non-space tokens
RECURSIVE FieldsFrom(_, _)
FieldsFrom(s, cur) ==
    IF s = <<>> THEN (IF cur = <<>> THEN <<>> ELSE <<cur>>)
    ELSE IF Head(s) \in WhiteSpace
         THEN (IF cur = <<>> THEN <<>> ELSE <<cur>>) \o FieldsFrom(Tail(s), <<>>)
         ELSE FieldsFrom(Tail(s), Append(cur, Head(s)))

Fields(s) == FieldsFrom(s, <<>>)

\* the lines a name-status report is made of here; every token is one byte
StatusLines ==
    { <<"A", TAB, "f">>, <<"D", TAB, "g">>, <<"M", TAB, "h">>,
      <<"R", TAB, "f", TAB, "g">>, <<"X">>, <<>>,
      <<SP, "A", SP, "g">>, <<"M", "M", TAB, "f">> }

Streams == UNION {[1..n -> StatusLines] : n \in 0..MaxStream}

NewCommitFileStatus == [Added |-> <<>>, Removed |-> <<>>, Modified |-> <<>>]

\* the loop body with the 'D' case appending to Modified
ClassifyLineSwapped(fs, line) ==
    LET fields == Fields(line)
    IN  IF Len(fields) < 2 THEN fs
        ELSE CASE fields[1][1] = "A" ->
                    [fs EXCEPT !.Added = Append(@, fields[2])]
               [] fields[1][1] \in {"D", "M"} ->
                    [fs EXCEPT !.Modified = Append(@, fields[2])]
               [] OTHER -> fs

\* the body of the scanner loop for one line
ClassifyLine(fs, line) ==
    LET fields == Fields(line)
    IN  IF Len(fields) < 2 THEN fs
        ELSE CASE fields[1][1] = "A" ->
                    [fs EXCEPT !.Added = Append(@, fields[2])]
               [] fields[1][1] = "D" ->
                    [fs EXCEPT !.Removed = Append(@, fields[2])]
               [] fields[1][1] = "M" ->
                    [fs EXCEPT !.Modified = Append(@, fields[2])]
               [] OTHER -> fs

StatusIdle ==
    /\ stream = <<>>
    /\ procFails = FALSE
    /\ written = 0
    /\ pipe = <<>>
    /\ wClosed = FALSE
    /\ consumed = <<>>
    /\ fileStatus = NewCommitFileStatus
    /\ gpc = "idle"
    /\ cpc = "idle"
    /\ doneRecv = 0
    /\ fret = [kind |-> "none"]

\* the state when RunInDirPipeline has been entered: pipe, channel and
\* status are made and the goroutine is started
StatusInit ==
    /\ stream \in Streams
    /\ procFails \in BOOLEAN
    /\ written = 0
    /\ pipe = <<>>
    /\ wClosed = FALSE
    /\ consumed = <<>>
    /\ fileStatus = NewCommitFileStatus
    /\ gpc = "scan"
    /\ cpc = "run"
    /\ doneRecv = 0
    /\ fret = [kind |-> "none"]

\* the process writes its next line to w
ProcWrite ==
    /\ cpc = "run"
    /\ written < Len(stream)
    /\ pipe = <<>>
    /\ pipe' = <<stream[written + 1]>>
    /\ written' = written + 1
    /\ UNCHANGED <<stream, procFails, wClosed, consumed, fileStatus, gpc,
                   cpc, doneRecv, fret>>
    /\ UNCHANGED <<searchVars, subVars, statVars>>

\* the process exits and RunInDirPipeline returns its error
ProcExit ==
    /\ cpc = "run"
    /\ written = Len(stream)
    /\ pipe = <<>>
    /\ cpc' = "close"
    /\ UNCHANGED <<stream, procFails, written, pipe, wClosed, consumed,
                   fileStatus, gpc, doneRecv, fret>>
    /\ UNCHANGED <<searchVars, subVars, statVars>>

\* w.Close(), then the check of err: the error return, or on to <-done
CallerClose ==
    /\ cpc = "close"
    /\ wClosed' = TRUE
    /\ IF procFails
       THEN /\ cpc' = "returned"
            /\ fret' = [kind |-> "ret", status |-> <<>>, err |-> "err"]
       ELSE cpc' = "wait" /\ fret' = fret
    /\ UNCHANGED <<stream, procFails, written, pipe, consumed, fileStatus,
                   gpc, doneRecv>>
    /\ UNCHANGED <<searchVars, subVars, statVars>>

\* scanner.Scan() yields a line and the loop body classifies it
GoScanLine ==
    /\ gpc = "scan"
    /\ pipe # <<>>
    /\ fileStatus' = ClassifyLine(fileStatus, pipe[1])
    /\ consumed' = Append(consumed, pipe[1])
    /\ pipe' = <<>>
    /\ UNCHANGED <<stream, procFails, written, wClosed, gpc, cpc, doneRecv,
                   fret>>
    /\ UNCHANGED <<searchVars, subVars, statVars>>

\* scanner.Scan() reports the end of the stream: the writer is closed
GoScanEOF ==
    /\ gpc = "scan"
    /\ pipe = <<>>
    /\ wClosed
    /\ gpc' = "send"
    /\ UNCHANGED <<stream, procFails, written, pipe, wClosed, consumed,
                   fileStatus, cpc, doneRecv, fret>>
    /\ UNCHANGED <<searchVars, subVars, statVars>>

\* done <- struct{}{} meets <-done; the caller returns fileStatus
DoneHandoff ==
    /\ gpc = "send"
    /\ cpc = "wait"
    /\ gpc' = "exit"
    /\ cpc' = "returned"
    /\ doneRecv' = doneRecv + 1
    /\ fret' = [kind |-> "ret", status |-> <<fileStatus>>, err |-> Nil]
    /\ UNCHANGED <<stream, procFails, written, pipe, wClosed, consumed,
                   fileStatus>>
    /\ UNCHANGED <<searchVars, subVars, statVars>>

(***************************************************************************)
(* Submodules: Commit.GetSubModules and Commit.GetSubModule.               *)
(*                                                                         *)
(* An objectCache is a function from paths to SubModules; heap[id] is the  *)
(* objectCache with that id; c.submoduleCache holds an id, NilCache when    *)
(* it is nil.                                                              *)
(***************************************************************************)
NilCache == 0

SecMarker == <<"[submodule", SP, "\"a\"]">>

\* a `key = value` line, written with or without blanks
KeyLine(key, val, spaced) ==
    IF spaced THEN <<TAB, key, SP, "=", SP>> \o val ELSE <<key, "=">> \o val

PathVals == { <<"p">>, <<"q">> }
UrlVals  == { <<"u">>, <<"v", "=", "w">> }

\* the lines of a section: p and u written with blanks, q and v=w without,
\* and a key with no "="
BodyLines ==
    { KeyLine("path", <<"p">>, TRUE), KeyLine("path", <<"q">>, FALSE),
      KeyLine("url", <<"u">>, TRUE),  KeyLine("url", <<"v", "=", "w">>, FALSE),
      <<TAB, "path">> }

\* the blobs: any lines, in and out of sections
Blobs == UNION {[1..n -> BodyLines \cup {SecMarker}] : n \in 0..MaxBlobLines}

\* strings.HasPrefix(line, "[submodule")
HasSubmodulePrefix(line) == line # <<>> /\ line[1] = "[submodule"

\* the composite literal with its two fields exchanged
NewSubModuleSwapped(path, url) == [Path |-> url, URL |-> path]

\* &SubModule{path, url}
NewSubModule(path, url) == [Path |-> path, URL |-> url]

\* objectCache.Set
CacheSet(cache, k, v) ==
    [x \in (DOMAIN cache) \cup {k} |-> IF x = k THEN v ELSE cache[x]]

newObjectCache == [x \in {} |-> Nil]

\* one iteration of the scanner loop of GetSubModules: st holds the locals
\* ismodule and path, cache is the objectCache c.submoduleCache points to
ScanStep(st, cache, line) ==
    IF HasSubmodulePrefix(line)
    THEN [ismodule |-> TRUE, path |-> st.path, cache |-> cache, panic |-> FALSE]
    ELSE IF st.ismodule
    THEN LET fields == Split(line, <<"=">>)
             k      == TrimSpace(fields[1])
         IN  IF k = <<"path">>
             THEN IF Len(fields) < 2
                  THEN [ismodule |-> TRUE, path |-> st.path, cache |-> cache,
                        panic |-> TRUE]
                  ELSE [ismodule |-> TRUE, path |-> TrimSpace(fields[2]),
                        cache |-> cache, panic |-> FALSE]
             ELSE IF k = <<"url">>
             THEN IF Len(fields) < 2
                  THEN [ismodule |-> TRUE, path |-> st.path, cache |-> cache,
                        panic |-> TRUE]
                  ELSE [ismodule |-> FALSE, path |-> st.path,
                        cache |-> CacheSet(cache, st.path,
                                    NewSubModule(st.path, TrimSpace(fields[2]))),
                        panic |-> FALSE]
             ELSE [ismodule |-> TRUE, path |-> st.path, cache |-> cache,
                   panic |-> FALSE]
    ELSE [ismodule |-> FALSE, path |-> st.path, cache |-> cache, panic |-> FALSE]

\* the whole scanner loop
RECURSIVE ScanAll(_, _, _)
ScanAll(st, cache, lines) ==
    IF lines = <<>> THEN [cache |-> cache, panic |-> FALSE]
    ELSE LET r == ScanStep(st, cache, Head(lines))
         IN  IF r.panic THEN [cache |-> r.cache, panic |-> TRUE]
             ELSE ScanAll([ismodule |-> r.ismodule, path |-> r.path],
                          r.cache, Tail(lines))

\* c.GetTreeEntryByPath(".gitmodules")
GetTreeEntryByPath(present) == IF present THEN Nil ELSE "NotFound"

\* GetSubModules run from entry to exit without another call in between:
\* the new values of the Commit's state and what the call hands back
GetSubModules ==
    IF submoduleCache # NilCache
    THEN [kind |-> "ret", cache |-> submoduleCache, err |-> Nil,
          field |-> submoduleCache, heap |-> heap, reads |-> blobReads]
    ELSE IF GetTreeEntryByPath(hasBlob) # Nil
    THEN [kind |-> "ret", cache |-> NilCache,
          err |-> GetTreeEntryByPath(hasBlob),
          field |-> NilCache, heap |-> heap, reads |-> blobReads]
    ELSE LET id == Len(heap) + 1
             r  == ScanAll([ismodule |-> FALSE, path |-> <<>>],
                           newObjectCache, blob)
         IN  [kind |-> IF r.panic THEN "panic" ELSE "ret",
              cache |-> IF r.panic THEN NilCache ELSE id, err |-> Nil,
              field |-> id, heap |-> Append(heap, r.cache),
              reads |-> blobReads + 1]

EntryNames == { <<"p">>, <<"q">>, <<>> }

SubIdle ==
    /\ blob = <<>>
    /\ hasBlob = FALSE
    /\ submoduleCache = NilCache
    /\ heap = <<>>
    /\ call = <<>>
    /\ blobReads = 0
    /\ lastRet = [op |-> "none"]

SubInit ==
    /\ hasBlob \in BOOLEAN
    /\ blob \in (IF hasBlob THEN Blobs ELSE {<<>>})
    /\ submoduleCache = NilCache
    /\ heap = <<>>
    /\ call = <<>>
    /\ blobReads = 0
    /\ lastRet = [op |-> "none"]

\* a call of c.GetSubModules()
CallGetSubModules ==
    LET r == GetSubModules
    IN  /\ submoduleCache' = r.field
        /\ heap' = r.heap
        /\ blobReads' = r.reads
        /\ lastRet' = [op |-> "GetSubModules", arg |-> <<>>, kind |-> r.kind,
                       cache |-> r.cache, module |-> <<>>, err |-> r.err]
        /\ UNCHANGED <<blob, hasBlob, call>>
        /\ UNCHANGED <<searchVars, statusVars, statVars>>

\* a call of c.GetSubModule(entryname)
CallGetSubModule ==
    \E entryname \in EntryNames :
        LET r == GetSubModules
        IN  /\ submoduleCache' = r.field
            /\ heap' = r.heap
            /\ blobReads' = r.reads
            /\ lastRet' =
                 [op |-> "GetSubModule", arg |-> entryname, kind |-> r.kind,
                  cache |-> NilCache,
                  module |-> IF r.kind = "ret" /\ r.err = Nil
                                /\ entryname \in DOMAIN r.heap[r.cache]
                             THEN <<r.heap[r.cache][entryname]>> ELSE <<>>,
                  err |-> r.err]
            /\ UNCHANGED <<blob, hasBlob, call>>
            /\ UNCHANGED <<searchVars, statusVars, statVars>>

(***************************************************************************)
(* GetSubModules statement by statement, for callers that share a Commit.  *)
(* call[t] is the frame of caller t: its position, the locals ismodule and *)
(* path, the index i of the next line, and what the call handed back.      *)
(***************************************************************************)
Frame0 == [pc |-> "check", ismodule |-> FALSE, path |-> <<>>, i |-> 0,
           ret |-> NilCache, err |-> Nil, partial |-> FALSE]

\* some caller other than t is between newObjectCache() and the end of
\* its scanner loop
OthersFilling(t) ==
    \E u \in (DOMAIN call) \ {t} :
        call[u].pc = "scan" /\ call[u].i <= Len(blob)

\* the shorter blobs that open with a section
RaceBlobs == {b \in Blobs : /\ Len(b) < MaxBlobLines
                            /\ b # <<>> => HasSubmodulePrefix(b[1])}

ScanInit ==
    /\ hasBlob \in BOOLEAN
    /\ blob \in (IF hasBlob THEN Blobs ELSE {<<>>})
    /\ submoduleCache = NilCache
    /\ heap = <<>>
    /\ call = [t \in {1} |-> Frame0]
    /\ blobReads = 0
    /\ lastRet = [op |-> "none"]

RaceInit ==
    /\ hasBlob \in BOOLEAN
    /\ blob \in (IF hasBlob THEN RaceBlobs ELSE {<<>>})
    /\ submoduleCache = NilCache
    /\ heap = <<>>
    /\ call = [t \in {1, 2} |-> Frame0]
    /\ blobReads = 0
    /\ lastRet = [op |-> "none"]

\* if c.submoduleCache != nil { return c.submoduleCache, nil }
StepCheck(t) ==
    /\ call[t].pc = "check"
    /\ IF submoduleCache # NilCache
       THEN call' = [call EXCEPT ![t].pc = "done",
                                 ![t].ret = submoduleCache,
                                 ![t].partial = OthersFilling(t)]
       ELSE call' = [call EXCEPT ![t].pc = "read"]
    /\ UNCHANGED <<blob, hasBlob, submoduleCache, heap, blobReads, lastRet>>
    /\ UNCHANGED <<searchVars, statusVars, statVars>>

\* GetTreeEntryByPath and entry.Blob().Data()
StepRead(t) ==
    /\ call[t].pc = "read"
    /\ IF GetTreeEntryByPath(hasBlob) # Nil
       THEN /\ call' = [call EXCEPT ![t].pc = "done",
                                    ![t].err = GetTreeEntryByPath(hasBlob)]
            /\ blobReads' = blobReads
       ELSE /\ call' = [call EXCEPT ![t].pc = "alloc"]
            /\ blobReads' = blobReads + 1
    /\ UNCHANGED <<blob, hasBlob, submoduleCache, heap, lastRet>>
    /\ UNCHANGED <<searchVars, statusVars, statVars>>

\* c.submoduleCache = newObjectCache(), before the loop
StepAlloc(t) ==
    /\ call[t].pc = "alloc"
    /\ heap' = Append(heap, newObjectCache)
    /\ submoduleCache' = Len(heap) + 1
    /\ call' = [call EXCEPT ![t].pc = "scan", ![t].i = 1]
    /\ UNCHANGED <<blob, hasBlob, blobReads, lastRet>>
    /\ UNCHANGED <<searchVars, statusVars, statVars>>

\* one iteration of the loop; Set goes to the cache the field points to now
StepScan(t) ==
    /\ call[t].pc = "scan"
    /\ call[t].i <= Len(blob)
    /\ LET r == ScanStep([ismodule |-> call[t].ismodule, path |-> call[t].path],
                         heap[submoduleCache], blob[call[t].i])
       IN  IF r.panic
           THEN call' = [call EXCEPT ![t].pc = "panic"] /\ heap' = heap
           ELSE /\ heap' = [heap EXCEPT ![submoduleCache] = r.cache]
                /\ call' = [call EXCEPT ![t].ismodule = r.ismodule,
                                        ![t].path = r.path,
                                        ![t].i = call[t].i + 1]
    /\ UNCHANGED <<blob, hasBlob, submoduleCache, blobReads, lastRet>>
    /\ UNCHANGED <<searchVars, statusVars, statVars>>

\* return c.submoduleCache, nil
StepReturn(t) ==
    /\ call[t].pc = "scan"
    /\ call[t].i > Len(blob)
    /\ call' = [call EXCEPT ![t].pc = "done",
                            ![t].ret = submoduleCache,
                            ![t].partial = OthersFilling(t)]
    /\ UNCHANGED <<blob, hasBlob, submoduleCache, heap, blobReads, lastRet>>
    /\ UNCHANGED <<searchVars, statusVars, statVars>>

(***************************************************************************)
(* Collaborator statistics: commitsCountPerCollab, numStatCommitsPerUser.  *)
(***************************************************************************)
DigitChars == <<"0", "1", "2", "3", "4", "5", "6", "7", "8", "9">>

IsDigit(c)  == \E i \in 1..10 : DigitChars[i] = c
DigitVal(c) == (CHOOSE i \in 1..10 : DigitChars[i] = c) - 1

\* the decimal text of a natural number, as the external tool prints it
RECURSIVE Dec(_)
Dec(n) == IF n < 10 THEN <<DigitChars[n + 1]>>
          ELSE Dec(n \div 10) \o <<DigitChars[(n % 10) + 1]>>

RECURSIVE DigitsValue(_, _)
DigitsValue(s, acc) ==
    IF s = <<>> THEN acc ELSE DigitsValue(Tail(s), 10 * acc + DigitVal(Head(s)))

\* strconv.ParseInt(s, 10, 64), for values that fit 64 bits
ParseInt(s) ==
    LET signed == s # <<>> /\ Head(s) \in {"+", "-"}
        body   == IF signed THEN Tail(s) ELSE s
    IN  IF body = <<>> \/ \E i \in 1..Len(body) : ~IsDigit(body[i])
        THEN [v |-> 0, err |-> "syntax"]
        ELSE [v |-> IF signed /\ Head(s) = "-"
                    THEN 0 - DigitsValue(body, 0) ELSE DigitsValue(body, 0),
              err |-> Nil]

\* regexp "[0-9]+" FindAllString(line, -1): the maximal runs of digits
RECURSIVE DigitRuns(_, _)
DigitRuns(s, cur) ==
    IF s = <<>> THEN (IF cur = <<>> THEN <<>> ELSE <<cur>>)
    ELSE IF IsDigit(Head(s))
         THEN DigitRuns(Tail(s), Append(cur, Head(s)))
         ELSE (IF cur = <<>> THEN <<>> ELSE <<cur>>) \o DigitRuns(Tail(s), <<>>)

FindAllNumbers(line) == DigitRuns(line, <<>>)

\* the split without the cut of the trailing element
OutputLinesKeepLast(out) == Split(out, <<NL>>)

\* lines := strings.Split(stdout, "\n"); lines = lines[:len(lines)-1]
OutputLines(out) ==
    LET lines == Split(out, <<NL>>) IN SubSeq(lines, 1, Len(lines) - 1)

\* the loop of commitsCountPerCollab over the lines
RECURSIVE CollabLoop(_, _, _)
CollabLoop(lines, u, commits) ==
    IF lines = <<>> THEN [kind |-> "ret", commits |-> <<commits>>, err |-> Nil]
    ELSE LET info       == SplitN2(Head(lines), <<":">>)
             numcommits == ParseInt(TrimSpace(info[1])).v
         IN  IF Len(info) < 2
             THEN [kind |-> "panic", commits |-> <<>>, err |-> Nil]
             ELSE CollabLoop(Tail(lines), u,
                    [Info  |-> Append(commits.Info,
                                  [NumCommits |-> numcommits,
                                   Date |-> info[2], User |-> u]),
                     Total |-> commits.Total + numcommits])

commitsCountPerCollab(out, e, usr) ==
    IF e # Nil THEN [kind |-> "ret", commits |-> <<>>, err |-> e]
    ELSE LET u     == IF usr = "" THEN "all" ELSE usr
             lines == OutputLines(out)
         IN  IF Len(lines) > 0
             THEN CollabLoop(lines, u, [Info |-> <<>>, Total |-> 0])
             ELSE [kind |-> "ret",
                   commits |-> <<[Info |-> <<[NumCommits |-> 0,
                                              Date |-> <<"00-000-0000">>,
                                              User |-> u]>>,
                                  Total |-> 0]>>,
                   err |-> Nil]

\* the loop of numStatCommitsPerUser over the lines
RECURSIVE NumStatLoop(_, _, _)
NumStatLoop(lines, insertions, deletions) ==
    IF lines = <<>> THEN [ins |-> insertions, del |-> deletions]
    ELSE LET numeros == FindAllNumbers(Head(lines))
             ins == IF Len(numeros) = 2 THEN ParseInt(TrimSpace(numeros[1])).v
                    ELSE 0
             del == IF Len(numeros) = 2 THEN ParseInt(TrimSpace(numeros[2])).v
                    ELSE 0
         IN  NumStatLoop(Tail(lines), insertions + ins, deletions + del)

numStatCommitsPerUser(usr, out, e) ==
    IF e # Nil THEN [kind |-> "ret", st |-> <<>>, err |-> e]
    ELSE LET lines == OutputLines(out)
             sums  == NumStatLoop(lines, 0, 0)
         IN  [kind |-> "ret",
              st |-> <<[Insertions |-> sums.ins, Deletions |-> sums.del,
                        Author |-> usr, Files |-> Len(lines)]>>,
              err |-> Nil]

\* the rows `uniq -c` prints for the histogram: a count, or a field that is
\* no number, then ":" and the date as awk prints it
Dates == { <<"01-Jan-2020">>, <<"02-Jan-2020">>, <<"a", ":", "b">>, <<>> }

HistRows == [junk : {FALSE}, n : {3, 12}, date : Dates]
            \cup [junk : {TRUE}, n : {0}, date : Dates]

RenderHist(row) ==
    (IF row.junk THEN <<SP, SP, "x", SP>> ELSE <<SP, SP>> \o Dec(row.n) \o <<SP>>)
    \o <<":">> \o row.date \o <<NL>>

\* the rows `git log --numstat` prints: insertions, deletions and path, with
\* "-" for both numbers of a binary file
NumRows == [bin : {FALSE}, ins : {3, 10}, del : {1, 2},
            path : {<<"file">>, <<"file", "1">>}]
           \cup [bin : {TRUE}, ins : {0}, del : {0}, path : {<<"img">>}]

RenderNum(row) ==
    (IF row.bin THEN <<"-", TAB, "-">>
     ELSE Dec(row.ins) \o <<TAB>> \o Dec(row.del))
    \o <<TAB>> \o row.path \o <<NL>>

RECURSIVE RenderAll(_, _)
RenderAll(rs, kind) ==
    IF rs = <<>> THEN <<>>
    ELSE (IF kind = "hist" THEN RenderHist(Head(rs)) ELSE RenderNum(Head(rs)))
         \o RenderAll(Tail(rs), kind)

Users == {"", "bob"}

StatIdle ==
    /\ rows = <<>>
    /\ stdout = <<>>
    /\ runErr = Nil
    /\ user = ""
    /\ statpc = "idle"
    /\ statret = [kind |-> "none"]

CollabInit ==
    /\ rows \in UNION {[1..n -> HistRows] : n \in 0..MaxRows}
    /\ stdout = RenderAll(rows, "hist")
    /\ runErr \in {Nil, "exit status 128"}
    /\ user \in Users
    /\ statpc = "call"
    /\ statret = [kind |-> "none"]

NumStatInit ==
    /\ rows \in UNION {[1..n -> NumRows] : n \in 0..MaxRows}
    /\ stdout = RenderAll(rows, "num")
    /\ runErr \in {Nil, "exit status 128"}
    /\ user \in Users
    /\ statpc = "call"
    /\ statret = [kind |-> "none"]

\* a call of Commit.CommitsCountPerCollab(user)
CallCommitsCountPerCollab ==
    /\ statpc = "call"
    /\ statret' = commitsCountPerCollab(stdout, runErr, user)
    /\ statpc' = "done"
    /\ UNCHANGED <<rows, stdout, runErr, user>>
    /\ UNCHANGED <<searchVars, statusVars, subVars>>

\* a call of Commit.NumStatCommitsPerUser(user)
CallNumStatCommitsPerUser ==
    /\ statpc = "call"
    /\ statret' = numStatCommitsPerUser(user, stdout, runErr)
    /\ statpc' = "done"
    /\ UNCHANGED <<rows, stdout, runErr, user>>
    /\ UNCHANGED <<searchVars, statusVars, subVars>>

(***************************************************************************)
(* Specifications, one per component.                                      *)
(***************************************************************************)
SearchNext ==
    \/ SearchCount
    \/ SearchFetch

InitSearch ==
    SearchInit /\ StatusIdle /\ SubIdle /\ StatIdle

SpecSearch == InitSearch /\ [][SearchNext]_vars

StatusNext ==
    \/ ProcWrite
    \/ ProcExit
    \/ CallerClose
    \/ GoScanLine
    \/ GoScanEOF
    \/ DoneHandoff

InitStatus ==
    SearchIdle /\ StatusInit /\ SubIdle /\ StatIdle

SpecStatus == InitStatus /\ [][StatusNext]_vars

SubNext ==
    \/ CallGetSubModules
    \/ CallGetSubModule

InitSub ==
    SearchIdle /\ StatusIdle /\ SubInit /\ StatIdle

SpecSub == InitSub /\ [][SubNext]_vars

StepNext ==
    \/ \E t \in DOMAIN call : StepCheck(t)
    \/ \E t \in DOMAIN call : StepRead(t)
    \/ \E t \in DOMAIN call : StepAlloc(t)
    \/ \E t \in DOMAIN call : StepScan(t)
    \/ \E t \in DOMAIN call : StepReturn(t)

InitSubScan ==
    SearchIdle /\ StatusIdle /\ ScanInit /\ StatIdle

SpecSubScan == InitSubScan /\ [][StepNext]_vars

InitSubRace ==
    SearchIdle /\ StatusIdle /\ RaceInit /\ StatIdle

SpecSubRace == InitSubRace /\ [][StepNext]_vars

CollabNext == CallCommitsCountPerCollab

InitCollab ==
    SearchIdle /\ StatusIdle /\ SubIdle /\ CollabInit

SpecCollab == InitCollab /\ [][CollabNext]_vars

NumStatNext == CallNumStatCommitsPerUser

InitNumStat ==
    SearchIdle /\ StatusIdle /\ SubIdle /\ NumStatInit

SpecNumStat == InitNumStat /\ [][NumStatNext]_vars

(***************************************************************************)
(* Properties.                                                             *)
(***************************************************************************)

\* C1: on every exit path of GetCommitFileStatus the caller has received
\* the goroutine's completion signal, so the goroutine has finished its
\* send on done and is not left blocked on it.
C1_SignalAlwaysReceived ==
    cpc = "returned" => (doneRecv = 1 /\ gpc = "exit")

TotalBlocks == Cardinality(FetchHits(repo))

\* C2: for page >= 1, pageSize > 0 and a non-empty search output of
\* totalBlocks blocks, GetRangeOfMatches returns without error (no crash)
\* a page of max(0, min(pageSize, totalBlocks - (page-1)*pageSize)) matches.
C2_PageLength ==
    (rangeRet.kind # "none" /\ fetchRun.err = Nil /\ fetchRun.stdout # <<>>)
    => /\ rangeRet.kind = "ret"
       /\ rangeRet.err = Nil
       /\ Len(rangeRet.matches) =
            Max(0, Min(opts.PageSize,
                       TotalBlocks - (opts.Page - 1) * opts.PageSize))

\* C3: when both invocations succeed on the same repository, the result of
\* the composed search has NumberMatches >= len(Results).
C3_CountCoversPage ==
    (sret.kind = "ret" /\ sret.err = Nil
        /\ countRun.err = Nil /\ fetchRun.err = Nil)
    => sret.m[1].NumberMatches >= Len(sret.m[1].Results)

\* C4: a failed count invocation ends the composed search with that error,
\* no MatchesResults and no fetch attempted; a failed fetch invocation ends
\* it with that error and no MatchesResults; whatever the output was.
C4_ErrorsPropagate ==
    /\ (countRun.err # Nil /\ spc # "count")
       => /\ spc = "done"
          /\ ~fetchTried
          /\ sret = [kind |-> "ret", m |-> <<>>, err |-> countRun.err]
    /\ (fetchRun.err # Nil /\ fetchTried /\ spc = "done")
       => sret = [kind |-> "ret", m |-> <<>>, err |-> fetchRun.err]

\* the second fields, in stream order, of the lines of at least two fields
\* whose first field starts with the given letter
RECURSIVE Picked(_, _)
Picked(lines, letter) ==
    IF lines = <<>> THEN <<>>
    ELSE LET f == Fields(Head(lines))
         IN  (IF Len(f) >= 2 /\ f[1][1] = letter THEN <<f[2]>> ELSE <<>>)
             \o Picked(Tail(lines), letter)

\* C5: when the invocation succeeds, GetCommitFileStatus returns without
\* error, only after the goroutine has consumed every line and finished,
\* and Added, Removed and Modified are the second fields of the A, D and M
\* lines of the whole stream, in order; other lines contribute nothing.
C5_ClassifiesWholeStream ==
    (cpc = "returned" /\ ~procFails)
    => /\ consumed = stream
       /\ gpc = "exit"
       /\ fret = [kind |-> "ret", err |-> Nil,
                  status |-> <<[Added    |-> Picked(stream, "A"),
                                Removed  |-> Picked(stream, "D"),
                                Modified |-> Picked(stream, "M")]>>]

C5_Witness ==
    /\ cpc = "returned" /\ ~procFails
    /\ Len(stream) = 3
    /\ \E i \in 1..3 : Len(Fields(stream[i])) < 2
    /\ \E i \in 1..3 : stream[i] # <<>> /\ stream[i][1] = "R"
    /\ fret.kind = "ret" /\ fret.err = Nil
    /\ Len(fret.status[1].Added) + Len(fret.status[1].Removed)
         + Len(fret.status[1].Modified) = 1

RECURSIVE SumField(_, _)
SumField(rs, f) == IF rs = <<>> THEN 0 ELSE Head(rs)[f] + SumField(Tail(rs), f)

\* C6: for a numstat output of lines "<insertions>\t<deletions>\t<path>",
\* NumStatCommitsPerUser returns the sum of the insertion fields, the sum of
\* the deletion fields and the number of lines.
C6_NumStatTotals ==
    (statpc = "done" /\ runErr = Nil)
    => statret = [kind |-> "ret", err |-> Nil,
                  st |-> <<[Insertions |-> SumField(rows, "ins"),
                            Deletions  |-> SumField(rows, "del"),
                            Author     |-> user,
                            Files      |-> Len(rows)]>>]

HasSection(b) == \E i \in 1..Len(b) : HasSubmodulePrefix(b[i])
HasEq(v)      == \E i \in 1..Len(v) : v[i] = "="

\* lines that belong to no section
Preambles == { <<>>, <<KeyLine("url", <<"u">>, TRUE)>> }

\* the blob is one section of `path = P` then `url = U`, however written
OneSection(b, P, U) ==
    \E pre \in Preambles, s1 \in BOOLEAN, s2 \in BOOLEAN :
        b = pre \o <<SecMarker, KeyLine("path", P, s1), KeyLine("url", U, s2)>>

\* C7, as stated: NotFound without a .gitmodules blob and likewise for a
\* blob with no [submodule section; for one section of `path = P` then
\* `url = U`, GetSubModule(P) returns SubModule{P, U}.
C7_NotFoundWithoutSection ==
    lastRet.op # "none"
    => /\ (~hasBlob \/ ~HasSection(blob))
          => (lastRet.kind = "ret" /\ lastRet.err = "NotFound")
       /\ \A P \in PathVals, U \in UrlVals :
            (OneSection(blob, P, U) /\ lastRet.op = "GetSubModule"
                /\ lastRet.arg = P)
            => lastRet.module = <<[Path |-> P, URL |-> U]>>

\* C7, amended: NotFound and no mapping without a .gitmodules blob; for a
\* blob with no [submodule section GetSubModules returns an empty mapping
\* without error and GetSubModule returns (nil, nil); for one section of
\* `path = P` then `url = U` with no "=" in P or U, GetSubModule(P) returns
\* SubModule{P, U}.
C7_NotFoundOnlyWithoutBlob ==
    lastRet.op # "none"
    => /\ ~hasBlob
          => /\ lastRet.kind = "ret" /\ lastRet.err = "NotFound"
             /\ lastRet.cache = NilCache /\ lastRet.module = <<>>
             /\ submoduleCache = NilCache
       /\ (hasBlob /\ ~HasSection(blob))
          => /\ lastRet.kind = "ret" /\ lastRet.err = Nil
             /\ lastRet.module = <<>>
             /\ lastRet.op = "GetSubModules"
                => (lastRet.cache # NilCache
                    /\ DOMAIN heap[lastRet.cache] = {})
       /\ \A P \in PathVals, U \in UrlVals :
            (OneSection(blob, P, U) /\ ~HasEq(P) /\ ~HasEq(U)
                /\ lastRet.op = "GetSubModule" /\ lastRet.arg = P)
            => /\ lastRet.kind = "ret" /\ lastRet.err = Nil
               /\ lastRet.module = <<[Path |-> P, URL |-> U]>>

C7_Witness ==
    /\ OneSection(blob, <<"p">>, <<"u">>)
    /\ lastRet.op = "GetSubModule"
    /\ lastRet.arg = <<"p">>
    /\ lastRet.module # <<>>

\* the result the rows of the histogram stand for
ExpectedCommits ==
    LET u == IF user = "" THEN "all" ELSE user
    IN  IF rows = <<>>
        THEN [Info  |-> <<[NumCommits |-> 0, Date |-> <<"00-000-0000">>,
                           User |-> u]>>,
              Total |-> 0]
        ELSE [Info  |-> [i \in 1..Len(rows) |->
                            [NumCommits |-> rows[i].n, Date |-> rows[i].date,
                             User |-> u]],
              Total |-> SumField(rows, "n")]

\* C8: for every output of the histogram query CommitsCountPerCollab
\* returns without error one row per line in order, NumCommits the number
\* before the first ":" (0 when it is no number), Date the text after it,
\* Total their sum; with no lines the one placeholder row with Total 0; an
\* empty user is recorded as "all".
C8_Histogram ==
    (statpc = "done" /\ runErr = Nil)
    => statret = [kind |-> "ret", err |-> Nil,
                  commits |-> <<ExpectedCommits>>]

C8_Witness ==
    /\ statpc = "done" /\ runErr = Nil /\ user = ""
    /\ Len(rows) = 2
    /\ rows[1].junk /\ ~rows[2].junk
    /\ \E i \in 1..Len(rows[2].date) : rows[2].date[i] = ":"
    /\ statret.kind = "ret"
    /\ statret.commits[1].Total = rows[2].n

\* C9: across any interleaving of GetSubModules calls on one Commit the
\* cache is populated at most once, the blob is read and parsed at most
\* once, and no caller obtains a mapping that is still being filled.
C9_PopulatedOnce ==
    /\ Len(heap) <= 1
    /\ blobReads <= 1
    /\ \A t \in DOMAIN call :
          (call[t].pc = "done" /\ call[t].err = Nil) => ~call[t].partial

\* line i of the blob has the given key
IsKeyLine(line, key) ==
    /\ ~HasSubmodulePrefix(line)
    /\ TrimSpace(Split(line, <<"=">>)[1]) = <<key>>

\* line i is a `url = ...` line of a section in which no path line and no
\* url line precedes it
UrlBeforePath(b, i) ==
    /\ IsKeyLine(b[i], "url")
    /\ Len(Split(b[i], <<"=">>)) >= 2
    /\ \E s \in 1..(i - 1) :
          /\ HasSubmodulePrefix(b[s])
          /\ \A j \in (s + 1)..(i - 1) :
                /\ ~HasSubmodulePrefix(b[j])
                /\ ~IsKeyLine(b[j], "path")
                /\ ~IsKeyLine(b[j], "url")

\* C10: in every section, first or later, a url line before any path line
\* of that section stores a SubModule under the empty path and changes no
\* other entry, and the parser leaves the in-submodule state.
C10_UrlBeforePathStoresEmpty ==
    [][\A t \in DOMAIN call :
          (/\ call[t].pc = "scan"
           /\ call[t].i <= Len(blob)
           /\ call'[t].i = call[t].i + 1
           /\ UrlBeforePath(blob, call[t].i))
          => /\ heap'[submoduleCache] =
                  CacheSet(heap[submoduleCache], <<>>,
                      [Path |-> <<>>,
                       URL  |-> TrimSpace(Split(blob[call[t].i], <<"=">>)[2])])
             /\ ~call'[t].ismodule]_vars

====
